---- MODULE Spec2Model ----
(***************************************************************************)
(* State-machine model of the realtime voice client and its relay:         *)
(*   - composables/audio.ts      capture pipeline and playback queue       *)
(*   - unnamed/part_001          duplex-socket transport (useRealtimeApi)  *)
(*   - unnamed/part_000          duplex page and its event dispatcher      *)
(*   - pages/websocket.vue       peer-to-peer transport (second script)    *)
(*   - server/routes/ws.ts       relay between clients and the upstream    *)
(* Every handler of the program is one action; an async function is one    *)
(* action per stretch of code between two awaits.                          *)
(***************************************************************************)
EXTENDS Integers, Sequences, FiniteSets, TLC

\* ---------------------------------------------------------------- bounds
\* PCM chunks delivered by the worklet in one behaviour.
MaxChunks == 3
\* startRecording calls in one behaviour (each creates one AudioContext).
MaxStarts == 2
\* enqueueAudio calls in one behaviour.
MaxEnqueue == 3
\* WebSocket objects the duplex transport creates in one behaviour.
MaxSockets == 2
\* sendMessage calls in one behaviour.
MaxSends == 2
\* connect() calls of the peer-to-peer page in one behaviour.
MaxConnects == 2
\* disconnect() calls of the peer-to-peer page in one behaviour.
MaxDisconnects == 2
\* Server events a page handles while the event log is shorter than this.
MaxEvents == 2
\* Client connections the relay accepts in one run.
MaxOpens == 2
\* Messages the clients send in one run, and messages the upstreams send.
MaxClientMsgs == 2
MaxUpstreamMsgs == 2
MaxErrors == 2
MaxFrames == 4
MaxDraws == 3
MaxStops == 2

\* ------------------------------------------------------ program constants
BUFFER_SIZE == 8192

\* Sample counts of the Int16Array chunks the worklet posts (2 bytes each).
ChunkLengths == {1024, 2048, 4096}

\* null
Null == 0

VARIABLES
  \* ---- composables/audio.ts: useAudio closure state
  audioContext,          \* Null or the id of the current AudioContext
  isRecording,
  isPlaying,
  audioBuffer,           \* pending Int16Array chunks, in arrival order
  currentBufferSize,     \* running byte counter
  mediaStreamSource,     \* Null or the id of the last created source node
  audioQueue,            \* Float32Array chunks awaiting playback
  flushBufferTimeoutId,  \* Null or the id of the last interval timer
  audioWaveform,         \* Null or the id of the last renderer
  \* ---- browser state the closure acts on
  startPc,               \* startRecording call -> where it is suspended
  loaded,                \* contexts whose worklet module has been added
  timers,                \* interval timers that are still active
  connected,             \* source nodes connected to a worklet node
  drawing,               \* renderers whose drawWaveform has been called
  sources,               \* buffer sources started and not yet ended
  \* ---- observation of the callbacks
  arrived,               \* every chunk handed to processAudioData, in order
  flushed,               \* every buffer handed to onFlushCallback, in order
  enqueued,              \* number of chunks handed to enqueueAudio
  started,               \* chunks whose playback started, in order
  ended,                 \* chunks whose playback ended
  \* ---- unnamed/part_001: useRealtimeApi closure state
  ws,                    \* Null or the id of the current WebSocket
  isConnected,
  \* ---- the WebSocket objects and what was observed of sendMessage
  sockets,               \* socket id -> readyState and the events it has fired
  wire,                  \* the sockets on which a frame was transmitted, in order
  thrown,                \* number of sendMessage calls that raised
  sendCalls,             \* number of sendMessage calls
  disconnects,           \* disconnect() calls since the last connect() call (up to 2)
  \* ---- pages/websocket.vue, peer-to-peer script: module state
  peerConn,              \* Null or the id of the current RTCPeerConnection
  channel,               \* Null or the id of the current RTCDataChannel
  rtcAudioContext,       \* Null or the id of the current AudioContext
  analyser,              \* Null or the id of the current AnalyserNode
  rtcAudioWaveform,      \* Null or the id of the current renderer
  rtcIsConnected,        \* the page's isConnected
  connecting,
  \* ---- the browser objects the page created; attempt k creates the objects k
  attempts,              \* connect() call -> where it is suspended, and on which
                         \* peer connection the awaited operation runs
  pcs,                   \* peer connection id -> connectionState, remote
                         \* description applied, onconnectionstatechange set
  openChannels,          \* data channels created and not closed
  openContexts,          \* audio contexts created and not closed
  liveAnalysers,         \* analysers created and not disconnected
  runningWaveforms,      \* renderers drawing and not stopped
  \* ---- server/routes/ws.ts: the relay
  connections,           \* client id -> Null (no entry) or the id of its upstream socket
  \* ---- the sockets the relay handles, and what was observed on them
  peers,                 \* client id -> is its connection open, and which one it is
  upstreams,             \* upstream id -> readyState, and the peer its listeners hold
  toUpstream,            \* upstream id -> the frames the relay sent on it, in order
  toClient,              \* client id -> the frames the relay sent to it, in order
  clientSent,            \* client id -> number of messages it has sent
  upstreamSent,          \* upstream id -> number of messages it has sent
  relayErrors,           \* number of relay handlers that ended by throwing
  messageLog,            \* what logMessage was called with, in order
  eventLog,              \* what logEvent was called with, in order
  pendingLogs,           \* setTimeout callbacks of the peer-to-peer listener not yet run
  lastOp,                \* the page handler that ran last
  \* ---- composables/audioVisualizer.ts: one renderer returned by initCanvas
  running,               \* `running`
  animationFrameId,      \* `animationFrameId`: Null or the id of the last frame requested
  \* ---- the browser's frame queue and the canvas, and what was observed
  scheduled,             \* ids of the frames requested and neither run nor cancelled
  canvas,                \* what the canvas shows: "blank" or "wave"
  paints,                \* number of times draw() painted the waveform
  skipped,               \* number of times draw() returned at its `running` test
  drawCalls,             \* number of drawWaveform() calls
  stopCalls,             \* number of stop() calls
  canvasRef              \* `canvasRef.value`: TRUE the canvas element, FALSE null

captureVars == <<audioBuffer, currentBufferSize, arrived, flushed>>
recordVars == <<audioContext, isRecording, mediaStreamSource, flushBufferTimeoutId,
                audioWaveform, startPc, loaded, timers, connected, drawing>>
playVars == <<isPlaying, audioQueue, sources, enqueued, started, ended>>
wsVars == <<ws, isConnected, sockets, wire, thrown, sendCalls, disconnects>>
audioVars == <<captureVars, recordVars, playVars>>
rtcVars == <<peerConn, channel, rtcAudioContext, analyser, rtcAudioWaveform,
             rtcIsConnected, connecting, attempts, pcs, openChannels, openContexts,
             liveAnalysers, runningWaveforms>>
transportVars == <<wsVars, rtcVars>>
logVars == <<eventLog, pendingLogs>>
relayVars == <<connections, peers, upstreams, toUpstream, toClient, clientSent,
               upstreamSent, relayErrors>>
vizVars == <<running, animationFrameId, scheduled, canvas, paints, skipped, drawCalls, stopCalls, canvasRef>>
pageVars == <<audioVars, transportVars, logVars, messageLog, vizVars>>

vars == <<audioContext, isRecording, isPlaying, audioBuffer, currentBufferSize,
          mediaStreamSource, audioQueue, flushBufferTimeoutId, audioWaveform,
          startPc, loaded, timers, connected, drawing, sources,
          arrived, flushed, enqueued, started, ended,
          ws, isConnected, sockets, wire, thrown, sendCalls, disconnects,
          peerConn, channel, rtcAudioContext, analyser, rtcAudioWaveform,
          rtcIsConnected, connecting, attempts, pcs, openChannels, openContexts,
          liveAnalysers, runningWaveforms,
          connections, peers, upstreams, toUpstream, toClient, clientSent,
          upstreamSent, relayErrors,
          messageLog, eventLog, pendingLogs, lastOp,
          running, animationFrameId, scheduled, canvas, paints, skipped, drawCalls, stopCalls, canvasRef>>

\* ------------------------------------------------------------- helpers
RECURSIVE SumLengths(_)
\* audioBuffer.reduce((acc, chunk) => acc + chunk.length, 0)
SumLengths(buf) ==
  IF buf = <<>> THEN 0 ELSE Head(buf).length + SumLengths(Tail(buf))

RECURSIVE SetChunks(_, _)
\* audioBuffer.forEach(chunk => { mergedBuffer.set(chunk, offset); offset += chunk.length })
\* The merged array is the set of placements: which chunk's samples lie at which offset.
SetChunks(buf, offset) ==
  IF buf = <<>> THEN {}
  ELSE {[offset |-> offset, chunk |-> Head(buf)]}
         \cup SetChunks(Tail(buf), offset + Head(buf).length)

\* The Int16Array flushBuffer builds from the pending chunks.
MergedBuffer(buf) ==
  [length |-> SumLengths(buf), placed |-> SetChunks(buf, 0)]

RECURSIVE ReadChunks(_, _)
\* Reading a merged array from offset 0 upwards: the chunks in the order their
\* samples appear in it.
ReadChunks(merged, offset) ==
  IF \E p \in merged.placed : p.offset = offset
  THEN LET p == CHOOSE q \in merged.placed : q.offset = offset
       IN  <<p.chunk>> \o ReadChunks(merged, offset + p.chunk.length)
  ELSE <<>>

RECURSIVE ReadAll(_)
\* All chunks of a sequence of merged arrays, in sample order.
ReadAll(bufs) ==
  IF bufs = <<>> THEN <<>> ELSE ReadChunks(Head(bufs), 0) \o ReadAll(Tail(bufs))

\* ---------------------------------------------------- capture pipeline
\* flushBuffer(): what is handed to onFlushCallback and the reset that follows.
FlushKeepsPending(buf, out) ==
  [audioBuffer |-> buf, currentBufferSize |-> 0,
   flushed |-> Append(out, MergedBuffer(buf))]

FlushKeepsCounter(buf, out) ==
  [audioBuffer |-> <<>>, currentBufferSize |-> 2 * SumLengths(buf),
   flushed |-> Append(out, MergedBuffer(buf))]

FlushBuffer(buf, out) ==
  [audioBuffer |-> <<>>, currentBufferSize |-> 0,
   flushed |-> Append(out, MergedBuffer(buf))]

\* if (currentBufferSize >= BUFFER_SIZE)
SizeAbove(size) == size > BUFFER_SIZE

SizeReached(size) == size >= BUFFER_SIZE

\* if (audioBuffer.length > 0), the guard of the interval callback
TimerAlways(buf) == TRUE

TimerGuard(buf) == Len(buf) > 0

\* port.onmessage -> processAudioData(data)
ProcessAudioData(len) ==
  /\ Len(arrived) < MaxChunks
  /\ connected # {}
  /\ LET chunk == [id |-> Len(arrived) + 1, length |-> len]
         buf == Append(audioBuffer, chunk)
         size == currentBufferSize + len * 2
         f == FlushBuffer(buf, flushed)
     IN  /\ arrived' = Append(arrived, chunk)
         /\ IF SizeReached(size)
            THEN /\ audioBuffer' = f.audioBuffer
                 /\ currentBufferSize' = f.currentBufferSize
                 /\ flushed' = f.flushed
            ELSE /\ audioBuffer' = buf
                 /\ currentBufferSize' = size
                 /\ flushed' = flushed
  /\ lastOp' = "processAudioData"
  /\ UNCHANGED <<logVars, relayVars, vizVars>>
  /\ UNCHANGED <<transportVars, messageLog>>
  /\ UNCHANGED recordVars
  /\ UNCHANGED playVars

\* the setInterval callback of startRecording
TimerTick(t) ==
  /\ t \in timers
  /\ LET f == FlushBuffer(audioBuffer, flushed)
     IN  IF TimerGuard(audioBuffer)
         THEN /\ audioBuffer' = f.audioBuffer
              /\ currentBufferSize' = f.currentBufferSize
              /\ flushed' = f.flushed
         ELSE UNCHANGED <<audioBuffer, currentBufferSize, flushed>>
  /\ arrived' = arrived
  /\ lastOp' = "timer"
  /\ UNCHANGED <<logVars, relayVars, vizVars>>
  /\ UNCHANGED <<transportVars, messageLog>>
  /\ UNCHANGED recordVars
  /\ UNCHANGED playVars

\* ------------------------------------------------- recording lifecycle
StartIds == 1..MaxStarts

\* The next startRecording call; it creates AudioContext number NextStart.
NextStart == Cardinality({i \in StartIds : startPc[i] # "none"}) + 1

\* startRecording(), up to `await audioContext.audioWorklet.addModule(...)`
StartRecording ==
  /\ NextStart \in StartIds
  /\ isRecording' = TRUE
  /\ audioContext' = NextStart
  /\ audioWaveform' = NextStart
  /\ startPc' = [startPc EXCEPT ![NextStart] = "addModule"]
  /\ UNCHANGED <<mediaStreamSource, flushBufferTimeoutId, loaded, timers, connected, drawing>>
  /\ UNCHANGED messageLog

\* stopRecording()
StopRecording ==
  IF ~isRecording
  THEN UNCHANGED <<recordVars, messageLog>>
  ELSE /\ connected' = connected \ {mediaStreamSource}
       /\ isRecording' = FALSE
       /\ timers' = IF flushBufferTimeoutId # Null
                    THEN timers \ {flushBufferTimeoutId} ELSE timers
       /\ flushBufferTimeoutId' = Null
       /\ messageLog' = Append(messageLog, "Stop recording")
       /\ UNCHANGED <<audioContext, mediaStreamSource, audioWaveform, startPc, loaded, drawing>>

\* toggleRecording(), the click handler of the record button
ToggleRecording ==
  /\ \/ isRecording /\ StopRecording
     \/ ~isRecording /\ StartRecording
  /\ lastOp' = "toggleRecording"
  /\ UNCHANGED <<logVars, relayVars, vizVars>>
  /\ UNCHANGED transportVars
  /\ UNCHANGED captureVars
  /\ UNCHANGED playVars

\* addModule resolved: startRecording goes on to `await getUserMedia(...)`
AddModuleResolved(i) ==
  /\ startPc[i] = "addModule"
  /\ loaded' = loaded \cup {i}
  /\ startPc' = [startPc EXCEPT ![i] = "getUserMedia"]
  /\ lastOp' = "addModule"
  /\ UNCHANGED <<logVars, relayVars, vizVars>>
  /\ UNCHANGED <<transportVars, messageLog>>
  /\ UNCHANGED <<audioContext, isRecording, mediaStreamSource, flushBufferTimeoutId,
                 audioWaveform, timers, connected, drawing>>
  /\ UNCHANGED captureVars
  /\ UNCHANGED playVars

\* addModule or getUserMedia rejected: startRecording ends by throwing
AwaitRejected(i) ==
  /\ startPc[i] \in {"addModule", "getUserMedia"}
  /\ startPc' = [startPc EXCEPT ![i] = "failed"]
  /\ lastOp' = "rejected"
  /\ UNCHANGED <<logVars, relayVars, vizVars>>
  /\ UNCHANGED <<transportVars, messageLog>>
  /\ UNCHANGED <<audioContext, isRecording, mediaStreamSource, flushBufferTimeoutId,
                 audioWaveform, loaded, timers, connected, drawing>>
  /\ UNCHANGED captureVars
  /\ UNCHANGED playVars

\* getUserMedia resolved: the rest of startRecording.  new AudioWorkletNode throws
\* when the current context has not registered the processor yet.
GetUserMediaResolved(i) ==
  /\ startPc[i] = "getUserMedia"
  /\ IF audioContext \notin loaded
     THEN /\ startPc' = [startPc EXCEPT ![i] = "failed"]
          /\ UNCHANGED <<flushBufferTimeoutId, timers, mediaStreamSource, connected, drawing>>
          /\ UNCHANGED messageLog
     ELSE /\ startPc' = [startPc EXCEPT ![i] = "done"]
          /\ flushBufferTimeoutId' = i
          /\ timers' = timers \cup {i}
          /\ mediaStreamSource' = i
          /\ connected' = connected \cup {i}
          /\ drawing' = IF audioWaveform # Null THEN drawing \cup {audioWaveform} ELSE drawing
          /\ messageLog' = Append(messageLog, "Start Recording")
  /\ lastOp' = "getUserMedia"
  /\ UNCHANGED <<logVars, relayVars, vizVars>>
  /\ UNCHANGED transportVars
  /\ UNCHANGED <<audioContext, isRecording, audioWaveform, loaded>>
  /\ UNCHANGED captureVars
  /\ UNCHANGED playVars

RecordingNext ==
  \/ ToggleRecording
  \/ \E i \in StartIds : AddModuleResolved(i)
  \/ \E i \in StartIds : AwaitRejected(i)
  \/ \E i \in StartIds : GetUserMediaResolved(i)

\* ------------------------------------------------------ playback queue
\* playFromQueue(): the closure state after the call
PlayFromQueueNoFlag(q, playing, ctx, srcs, st) ==
  IF playing \/ Len(q) = 0 \/ ctx = Null
  THEN [audioQueue |-> q, isPlaying |-> playing, sources |-> srcs, started |-> st]
  ELSE [audioQueue |-> Tail(q), isPlaying |-> playing,
        sources |-> srcs \cup {[chunk |-> Head(q), ctx |-> ctx]},
        started |-> Append(st, Head(q))]

PlayFromQueuePop(q, playing, ctx, srcs, st) ==
  IF playing \/ Len(q) = 0 \/ ctx = Null
  THEN [audioQueue |-> q, isPlaying |-> playing, sources |-> srcs, started |-> st]
  ELSE [audioQueue |-> SubSeq(q, 1, Len(q) - 1), isPlaying |-> TRUE,
        sources |-> srcs \cup {[chunk |-> q[Len(q)], ctx |-> ctx]},
        started |-> Append(st, q[Len(q)])]

PlayFromQueue(q, playing, ctx, srcs, st) ==
  IF playing \/ Len(q) = 0 \/ ctx = Null
  THEN [audioQueue |-> q, isPlaying |-> playing, sources |-> srcs, started |-> st]
  ELSE [audioQueue |-> Tail(q), isPlaying |-> TRUE,
        sources |-> srcs \cup {[chunk |-> Head(q), ctx |-> ctx]},
        started |-> Append(st, Head(q))]

\* enqueueAudio(buffer); the chunks are numbered in the order they are enqueued
EnqueueAudioCall ==
  /\ enqueued < MaxEnqueue
  /\ enqueued' = enqueued + 1
  /\ LET q == Append(audioQueue, enqueued + 1)
         r == IF ~isPlaying
              THEN PlayFromQueue(q, isPlaying, audioContext, sources, started)
              ELSE [audioQueue |-> q, isPlaying |-> isPlaying, sources |-> sources,
                    started |-> started]
     IN  /\ audioQueue' = r.audioQueue
         /\ isPlaying' = r.isPlaying
         /\ sources' = r.sources
         /\ started' = r.started
  /\ ended' = ended

\* enqueueAudio called on its own
EnqueueAudio ==
  /\ EnqueueAudioCall
  /\ lastOp' = "enqueueAudio"
  /\ UNCHANGED <<logVars, relayVars, vizVars>>
  /\ UNCHANGED <<transportVars, messageLog>>
  /\ UNCHANGED recordVars
  /\ UNCHANGED captureVars

\* source.onended: the buffer source s has played to its end
SourceEnded(s) ==
  /\ s \in sources
  /\ ended' = ended \cup {s.chunk}
  /\ LET r == PlayFromQueue(audioQueue, FALSE, audioContext, sources \ {s}, started)
     IN  /\ audioQueue' = r.audioQueue
         /\ isPlaying' = r.isPlaying
         /\ sources' = r.sources
         /\ started' = r.started
  /\ enqueued' = enqueued
  /\ lastOp' = "onended"
  /\ UNCHANGED <<logVars, relayVars, vizVars>>
  /\ UNCHANGED <<transportVars, messageLog>>
  /\ UNCHANGED recordVars
  /\ UNCHANGED captureVars

\* ------------------------------------------- duplex-socket transport
SocketIds == 1..MaxSockets

\* The next WebSocket that connect() creates.
NextSocket == Cardinality({s \in SocketIds : sockets[s].readyState # "none"}) + 1

\* Sockets whose connection is not closed.
LiveSockets == {s \in SocketIds : sockets[s].readyState \in {"CONNECTING", "OPEN", "CLOSING"}}

\* connect(): `if (isConnected.value) return;` then a new WebSocket with its handlers
ConnectGuard == isConnected

Connect ==
  /\ IF ConnectGuard
     THEN UNCHANGED <<ws, sockets>>
     ELSE /\ NextSocket \in SocketIds
          /\ ws' = NextSocket
          /\ sockets' = [sockets EXCEPT ![NextSocket].readyState = "CONNECTING"]
  /\ disconnects' = 0
  /\ lastOp' = "connect"
  /\ UNCHANGED <<logVars, relayVars, vizVars>>
  /\ UNCHANGED rtcVars
  /\ UNCHANGED <<isConnected, wire, thrown, sendCalls, messageLog>>
  /\ UNCHANGED audioVars

\* WebSocket.close(): starts the closing handshake unless already closing or closed
CloseSocket(state) ==
  IF state \in {"CONNECTING", "OPEN"} THEN "CLOSING" ELSE state

\* disconnect(): `if (ws) ws.close();`
DisconnectCall ==
  /\ sockets' = IF ws # Null
                THEN [sockets EXCEPT ![ws].readyState = CloseSocket(@)]
                ELSE sockets
  /\ disconnects' = IF disconnects < 2 THEN disconnects + 1 ELSE disconnects

\* disconnect() called by the disconnect button or onUnmounted
Disconnect ==
  /\ DisconnectCall
  /\ lastOp' = "disconnect"
  /\ UNCHANGED <<logVars, relayVars, vizVars>>
  /\ UNCHANGED rtcVars
  /\ UNCHANGED <<ws, isConnected, wire, thrown, sendCalls, messageLog>>
  /\ UNCHANGED audioVars

\* sendMessage(data): `if (ws && isConnected.value) ws.send(...)`.  WebSocket.send
\* throws InvalidStateError while CONNECTING, transmits while OPEN and discards
\* the data while CLOSING or CLOSED.
SendGuard == ws # Null /\ isConnected

SendMessage ==
  /\ sendCalls < MaxSends
  /\ sendCalls' = sendCalls + 1
  /\ IF SendGuard
     THEN /\ wire' = IF sockets[ws].readyState = "OPEN" THEN Append(wire, ws) ELSE wire
          /\ thrown' = IF sockets[ws].readyState = "CONNECTING" THEN thrown + 1 ELSE thrown
     ELSE UNCHANGED <<wire, thrown>>
  /\ lastOp' = "sendMessage"
  /\ UNCHANGED <<logVars, relayVars, vizVars>>
  /\ UNCHANGED rtcVars
  /\ UNCHANGED <<ws, isConnected, sockets, disconnects, messageLog>>
  /\ UNCHANGED audioVars

\* ws.onopen of socket s
SocketOpen(s) ==
  /\ sockets[s].readyState = "CONNECTING"
  /\ sockets' = [sockets EXCEPT ![s].readyState = "OPEN", ![s].opened = TRUE]
  /\ messageLog' = Append(messageLog, "Connected to server")
  /\ isConnected' = TRUE
  /\ lastOp' = "onopen"
  /\ UNCHANGED <<logVars, relayVars, vizVars>>
  /\ UNCHANGED rtcVars
  /\ UNCHANGED <<ws, wire, thrown, sendCalls, disconnects>>
  /\ UNCHANGED audioVars

\* ws.onclose of socket s: the handshake ended, the server closed or the connection failed
SocketClose(s) ==
  /\ s \in LiveSockets
  /\ sockets' = [sockets EXCEPT ![s].readyState = "CLOSED"]
  /\ messageLog' = Append(messageLog, "Disconnected")
  /\ isConnected' = FALSE
  /\ lastOp' = "onclose"
  /\ UNCHANGED <<logVars, relayVars, vizVars>>
  /\ UNCHANGED rtcVars
  /\ UNCHANGED <<ws, wire, thrown, sendCalls, disconnects>>
  /\ UNCHANGED audioVars

\* ws.onerror of socket s: logged, nothing else (the close event follows on its own)
SocketError(s) ==
  /\ s \in LiveSockets
  /\ ~sockets[s].errored
  /\ sockets' = [sockets EXCEPT ![s].errored = TRUE]
  /\ messageLog' = Append(messageLog, "Error occurred")
  /\ lastOp' = "onerror"
  /\ UNCHANGED <<logVars, relayVars, vizVars>>
  /\ UNCHANGED rtcVars
  /\ UNCHANGED <<ws, isConnected, wire, thrown, sendCalls, disconnects>>
  /\ UNCHANGED audioVars

WsNext ==
  \/ Connect
  \/ Disconnect
  \/ SendMessage
  \/ \E s \in SocketIds : SocketOpen(s)
  \/ \E s \in SocketIds : SocketClose(s)
  \/ \E s \in SocketIds : SocketError(s)

\* --------------------------------------------- peer-to-peer transport
AttemptIds == 1..MaxConnects

\* The next connect() call.
NextAttempt == Cardinality({a \in AttemptIds : attempts[a].pc # "none"}) + 1

\* Peer connections created and not closed.
OpenPcs == {p \in AttemptIds : pcs[p].state \notin {"none", "closed"}}

\* Number of disconnect() calls so far: each one logs 'Disconnected' once.
DisconnectCalls == Cardinality({i \in DOMAIN messageLog : messageLog[i] = "Disconnected"})

\* The awaits of connect(), in program order.
Awaiting == {"token", "media", "offer", "local", "sdp", "remote"}

\* the `catch (e)` of connect()
Caught(a) ==
  /\ attempts' = [attempts EXCEPT ![a] = [pc |-> "failed", target |-> Null]]
  /\ connecting' = FALSE

\* connect(), up to `await $fetch('/session')`; the button is disabled while isConnected
RtcConnect ==
  /\ ~rtcIsConnected
  /\ NextAttempt \in AttemptIds
  /\ connecting' = TRUE
  /\ attempts' = [attempts EXCEPT ![NextAttempt].pc = "token"]
  /\ disconnects' = 0
  /\ lastOp' = "rtcConnect"
  /\ UNCHANGED <<logVars, relayVars, vizVars>>
  /\ UNCHANGED <<peerConn, channel, rtcAudioContext, analyser, rtcAudioWaveform,
                 rtcIsConnected, pcs, openChannels, openContexts, liveAnalysers,
                 runningWaveforms, messageLog>>
  /\ UNCHANGED <<ws, isConnected, sockets, wire, thrown, sendCalls>>
  /\ UNCHANGED audioVars

\* the credential arrived: getUserMedia is requested
TokenResolved(a) ==
  /\ attempts[a].pc = "token"
  /\ attempts' = [attempts EXCEPT ![a].pc = "media"]
  /\ lastOp' = "token"
  /\ UNCHANGED <<logVars, relayVars, vizVars>>
  /\ UNCHANGED <<peerConn, channel, rtcAudioContext, analyser, rtcAudioWaveform,
                 rtcIsConnected, connecting, pcs, openChannels, openContexts,
                 liveAnalysers, runningWaveforms, messageLog>>
  /\ UNCHANGED <<wsVars, audioVars>>

\* the microphone stream arrived: initAudioWaveFormCanvas, new RTCPeerConnection,
\* createDataChannel, and createOffer is called on the new peer connection
MediaResolved(a) ==
  /\ attempts[a].pc = "media"
  /\ rtcAudioContext' = a
  /\ openContexts' = openContexts \cup {a}
  /\ analyser' = a
  /\ liveAnalysers' = liveAnalysers \cup {a}
  /\ rtcAudioWaveform' = a
  /\ runningWaveforms' = runningWaveforms \cup {a}
  /\ peerConn' = a
  /\ pcs' = [pcs EXCEPT ![a].state = "new"]
  /\ channel' = a
  /\ openChannels' = openChannels \cup {a}
  /\ attempts' = [attempts EXCEPT ![a] = [pc |-> "offer", target |-> a]]
  /\ lastOp' = "media"
  /\ UNCHANGED <<logVars, relayVars, vizVars>>
  /\ UNCHANGED <<rtcIsConnected, connecting, messageLog>>
  /\ UNCHANGED <<wsVars, audioVars>>

\* createOffer resolved: `await peerConn.setLocalDescription(offer)` on the
\* current peerConn, a TypeError if it is null
OfferResolved(a) ==
  /\ attempts[a].pc = "offer"
  /\ pcs[attempts[a].target].state # "closed"
  /\ IF peerConn = Null
     THEN Caught(a)
     ELSE /\ attempts' = [attempts EXCEPT ![a] = [pc |-> "local", target |-> peerConn]]
          /\ UNCHANGED connecting
  /\ lastOp' = "offer"
  /\ UNCHANGED <<logVars, relayVars, vizVars>>
  /\ UNCHANGED <<peerConn, channel, rtcAudioContext, analyser, rtcAudioWaveform,
                 rtcIsConnected, pcs, openChannels, openContexts, liveAnalysers,
                 runningWaveforms, messageLog>>
  /\ UNCHANGED <<wsVars, audioVars>>

\* setLocalDescription resolved: the offer is posted to the service
LocalResolved(a) ==
  /\ attempts[a].pc = "local"
  /\ pcs[attempts[a].target].state # "closed"
  /\ attempts' = [attempts EXCEPT ![a] = [pc |-> "sdp", target |-> Null]]
  /\ lastOp' = "local"
  /\ UNCHANGED <<logVars, relayVars, vizVars>>
  /\ UNCHANGED <<peerConn, channel, rtcAudioContext, analyser, rtcAudioWaveform,
                 rtcIsConnected, connecting, pcs, openChannels, openContexts,
                 liveAnalysers, runningWaveforms, messageLog>>
  /\ UNCHANGED <<wsVars, audioVars>>

\* the answer arrived: `await peerConn.setRemoteDescription(...)` on the current
\* peerConn, a TypeError if it is null
SdpResolved(a) ==
  /\ attempts[a].pc = "sdp"
  /\ IF peerConn = Null
     THEN Caught(a)
     ELSE /\ attempts' = [attempts EXCEPT ![a] = [pc |-> "remote", target |-> peerConn]]
          /\ UNCHANGED connecting
  /\ lastOp' = "sdp"
  /\ UNCHANGED <<logVars, relayVars, vizVars>>
  /\ UNCHANGED <<peerConn, channel, rtcAudioContext, analyser, rtcAudioWaveform,
                 rtcIsConnected, pcs, openChannels, openContexts, liveAnalysers,
                 runningWaveforms, messageLog>>
  /\ UNCHANGED <<wsVars, audioVars>>

\* setRemoteDescription resolved (signaling is complete): channel.onopen and
\* peerConn.onconnectionstatechange are set on the current objects, a TypeError
\* if they are null
RemoteResolved(a) ==
  /\ attempts[a].pc = "remote"
  /\ pcs[attempts[a].target].state # "closed"
  /\ IF channel = Null \/ peerConn = Null
     THEN /\ Caught(a)
          /\ pcs' = [pcs EXCEPT ![attempts[a].target].remote = TRUE]
     ELSE /\ attempts' = [attempts EXCEPT ![a] = [pc |-> "done", target |-> Null]]
          /\ pcs' = [p \in AttemptIds |->
                       [state |-> pcs[p].state,
                        remote |-> pcs[p].remote \/ p = attempts[a].target,
                        handler |-> pcs[p].handler \/ p = peerConn]]
          /\ UNCHANGED connecting
  /\ lastOp' = "remote"
  /\ UNCHANGED <<logVars, relayVars, vizVars>>
  /\ UNCHANGED <<peerConn, channel, rtcAudioContext, analyser, rtcAudioWaveform,
                 rtcIsConnected, openChannels, openContexts, liveAnalysers,
                 runningWaveforms, messageLog>>
  /\ UNCHANGED <<wsVars, audioVars>>

\* an awaited request or operation of connect() rejected
RtcAwaitRejected(a) ==
  /\ attempts[a].pc \in Awaiting
  /\ Caught(a)
  /\ lastOp' = "rtcRejected"
  /\ UNCHANGED <<logVars, relayVars, vizVars>>
  /\ UNCHANGED <<peerConn, channel, rtcAudioContext, analyser, rtcAudioWaveform,
                 rtcIsConnected, pcs, openChannels, openContexts, liveAnalysers,
                 runningWaveforms, messageLog>>
  /\ UNCHANGED <<wsVars, audioVars>>

\* The connection states a peer connection with both descriptions can move to.
NextStates(state) ==
  CASE state = "new" -> {"connecting"}
    [] state = "connecting" -> {"connected", "failed"}
    [] state = "connected" -> {"failed"}
    [] OTHER -> {}

\* the onconnectionstatechange handler: it reads the state of the current peerConn
StateChangeHandler(st) == peerConn # Null /\ st[peerConn].state = "connected"

\* peer connection p moves to state `to` and fires connectionstatechange
PcStateChange(p, to) ==
  /\ pcs[p].remote
  /\ to \in NextStates(pcs[p].state)
  /\ pcs' = [pcs EXCEPT ![p].state = to]
  /\ IF pcs[p].handler /\ StateChangeHandler(pcs')
     THEN /\ messageLog' = Append(messageLog, "Connected to server")
          /\ rtcIsConnected' = TRUE
          /\ connecting' = FALSE
     ELSE UNCHANGED <<messageLog, rtcIsConnected, connecting>>
  /\ lastOp' = "connectionstatechange"
  /\ UNCHANGED <<logVars, relayVars, vizVars>>
  /\ UNCHANGED <<peerConn, channel, rtcAudioContext, analyser, rtcAudioWaveform,
                 attempts, openChannels, openContexts, liveAnalysers, runningWaveforms>>
  /\ UNCHANGED <<wsVars, audioVars>>

\* disconnect() of the peer-to-peer page
RtcDisconnectCall ==
  /\ DisconnectCalls < MaxDisconnects
  /\ openChannels' = openChannels \ {channel}
  /\ channel' = Null
  /\ pcs' = IF peerConn # Null THEN [pcs EXCEPT ![peerConn].state = "closed"] ELSE pcs
  /\ peerConn' = Null
  /\ liveAnalysers' = liveAnalysers \ {analyser}
  /\ analyser' = Null
  /\ openContexts' = openContexts \ {rtcAudioContext}
  /\ rtcAudioContext' = Null
  /\ runningWaveforms' = runningWaveforms \ {rtcAudioWaveform}
  /\ rtcAudioWaveform' = Null
  /\ messageLog' = Append(messageLog, "Disconnected")
  /\ rtcIsConnected' = FALSE
  /\ disconnects' = IF disconnects < 2 THEN disconnects + 1 ELSE disconnects
  /\ UNCHANGED <<connecting, attempts>>

\* disconnect() called by the disconnect button or onUnmounted
RtcDisconnect ==
  /\ RtcDisconnectCall
  /\ lastOp' = "rtcDisconnect"
  /\ UNCHANGED <<logVars, relayVars, vizVars>>
  /\ UNCHANGED <<ws, isConnected, sockets, wire, thrown, sendCalls>>
  /\ UNCHANGED audioVars

RtcNext ==
  \/ RtcConnect
  \/ RtcDisconnect
  \/ \E a \in AttemptIds : TokenResolved(a)
  \/ \E a \in AttemptIds : MediaResolved(a)
  \/ \E a \in AttemptIds : OfferResolved(a)
  \/ \E a \in AttemptIds : LocalResolved(a)
  \/ \E a \in AttemptIds : SdpResolved(a)
  \/ \E a \in AttemptIds : RemoteResolved(a)
  \/ \E a \in AttemptIds : RtcAwaitRejected(a)
  \/ \E p \in AttemptIds : \E to \in {"connecting", "connected", "failed"} : PcStateChange(p, to)

\* ------------------------------------------------ server-event dispatch
\* The tags the pages have a case for, and one they have none for.
EventTypes == {"response.audio.delta", "response.audio_transcript.done",
               "conversation.item.input_audio_transcription.completed",
               "error", "session.created"}

\* A parsed server event: its tag, the code (an error event may carry the
\* session-expired one) and the transcript (empty unless a transcript event
\* carries one).
Events == {ev \in [type : EventTypes, code : {"session_expired", "other"},
                   transcript : {"", "text"}] :
             /\ ev.code = "session_expired" => ev.type = "error"
             /\ ev.transcript = "text" =>
                  ev.type \in {"response.audio_transcript.done",
                               "conversation.item.input_audio_transcription.completed"}}

\* The case labels of the duplex page's switch
DuplexCases == {"response.audio.delta", "response.audio_transcript.done",
                "conversation.item.input_audio_transcription.completed", "error"}

\* The case labels of the peer-to-peer listener's switch
P2pCases == {"response.audio_transcript.done",
             "conversation.item.input_audio_transcription.completed", "error"}

\* `case 'error':`
IsErrorCaseOrDefault(type) == type \notin DuplexCases \ {"error"}

IsErrorCase(type) == type = "error"

\* `if (event.code === 'session_expired')`
IsSessionExpired(ev) == ev.code = "session_expired"

\* handleWebSocketMessage(message), the onmessage handler of socket s
HandleWebSocketMessage(s, ev) ==
  /\ sockets[s].readyState = "OPEN"
  /\ Len(eventLog) < MaxEvents
  /\ IF ev.type = "response.audio.delta"
     THEN /\ eventLog' = Append(eventLog, ev.type)
          /\ EnqueueAudioCall
          /\ UNCHANGED <<recordVars, messageLog, sockets, disconnects>>
     ELSE IF ev.type = "response.audio_transcript.done"
     THEN /\ eventLog' = Append(eventLog, ev.type)
          /\ messageLog' = Append(messageLog, "assistant transcript")
          /\ UNCHANGED <<recordVars, playVars, sockets, disconnects>>
     ELSE IF ev.type = "conversation.item.input_audio_transcription.completed"
     THEN /\ eventLog' = Append(eventLog, ev.type)
          /\ messageLog' = Append(messageLog, "user transcript")
          /\ UNCHANGED <<recordVars, playVars, sockets, disconnects>>
     ELSE IF IsErrorCase(ev.type)
     THEN /\ eventLog' = eventLog \o <<ev.type, "error payload">>
          /\ StopRecording
          /\ IF IsSessionExpired(ev)
             THEN DisconnectCall
             ELSE UNCHANGED <<sockets, disconnects>>
          /\ UNCHANGED playVars
     ELSE /\ eventLog' = Append(eventLog, ev.type)
          /\ UNCHANGED <<recordVars, playVars, messageLog, sockets, disconnects>>
  /\ lastOp' = "handleWebSocketMessage"
  /\ UNCHANGED <<relayVars, vizVars>>
  /\ UNCHANGED <<ws, isConnected, wire, thrown, sendCalls, pendingLogs>>
  /\ UNCHANGED rtcVars
  /\ UNCHANGED captureVars

\* the 'message' listener of data channel c, which the connect() call c added
ChannelMessage(c, ev) ==
  /\ c \in openChannels
  /\ pcs[c].state = "connected"
  /\ Len(eventLog) < MaxEvents
  /\ IF ev.type = "response.audio_transcript.done"
     THEN /\ eventLog' = Append(eventLog, ev.type)
          /\ pendingLogs' = pendingLogs + 1
          /\ UNCHANGED <<rtcVars, messageLog, disconnects>>
     ELSE IF ev.type = "conversation.item.input_audio_transcription.completed"
     THEN /\ eventLog' = Append(eventLog, ev.type)
          /\ messageLog' = IF ev.transcript # ""
                           THEN Append(messageLog, "user transcript") ELSE messageLog
          /\ UNCHANGED <<rtcVars, pendingLogs, disconnects>>
     ELSE IF IsErrorCase(ev.type)
     THEN /\ eventLog' = eventLog \o <<ev.type, "error payload">>
          /\ IF IsSessionExpired(ev)
             THEN RtcDisconnectCall
             ELSE UNCHANGED <<rtcVars, messageLog, disconnects>>
          /\ UNCHANGED pendingLogs
     ELSE /\ eventLog' = Append(eventLog, ev.type)
          /\ UNCHANGED <<rtcVars, messageLog, pendingLogs, disconnects>>
  /\ lastOp' = "channelMessage"
  /\ UNCHANGED <<relayVars, vizVars>>
  /\ UNCHANGED <<ws, isConnected, sockets, wire, thrown, sendCalls>>
  /\ UNCHANGED audioVars

\* the callback of `setTimeout(() => logMessage(...), 100)`
TranscriptTimeout ==
  /\ pendingLogs > 0
  /\ pendingLogs' = pendingLogs - 1
  /\ messageLog' = Append(messageLog, "assistant transcript")
  /\ lastOp' = "timeout"
  /\ UNCHANGED <<eventLog, transportVars, audioVars, relayVars, vizVars>>

\* ------------------------------------------------------------ relay
\* The identifiers (peer.id) of the clients: two clients, for whom a session
\* each is held at the same time.
PeerIds == {1, 2}

UpstreamIds == 1..MaxOpens

\* The number of messages counted by a function of counters.
RECURSIVE Total(_, _)
Total(count, ids) ==
  IF ids = {} THEN 0
  ELSE LET i == CHOOSE j \in ids : TRUE
       IN  count[i] + Total(count, ids \ {i})

\* The upstream socket the next `new WebSocket(url, ...)` of the relay creates.
NextUpstream == Cardinality({u \in UpstreamIds : upstreams[u].readyState # "none"}) + 1

\* `delete connections[peer.id]`
KeepEntry(conns, p) == conns

ClearEntries(conns, p) == [q \in PeerIds |-> Null]

DeleteEntry(conns, p) == [conns EXCEPT ![p] = Null]

\* The frame `JSON.stringify({type: 'session.update', ...})`; it comes from no client.
SessionUpdate == [from |-> Null, seq |-> 0]

\* send(data) of the ws library on an upstream socket: throws while
\* CONNECTING, transmits while OPEN, discards the data while CLOSING or CLOSED
SendTwice(frames, state, data) ==
  IF state = "OPEN" THEN frames \o <<data, data>> ELSE frames

SendDiscards(frames, state, data) == frames

UpstreamSend(frames, state, data) ==
  IF state = "OPEN" THEN Append(frames, data) ELSE frames

SendThrows(state) == state = "CONNECTING"

\* open(peer): the client with id p has connected
RelayOpen(p) ==
  /\ ~peers[p].open
  /\ NextUpstream \in UpstreamIds
  /\ peers' = [peers EXCEPT ![p] = [open |-> TRUE, epoch |-> @.epoch + 1]]
  /\ LET u == IF connections[p] = Null THEN NextUpstream ELSE connections[p]
     IN  /\ connections' = [connections EXCEPT ![p] = u]
         /\ upstreams' = [upstreams EXCEPT ![u] =
                            [readyState |-> IF connections[p] = Null
                                            THEN "CONNECTING" ELSE @.readyState,
                             peer |-> p, epoch |-> peers[p].epoch + 1]]
  /\ UNCHANGED <<toUpstream, toClient, clientSent, upstreamSent, relayErrors>>
  /\ UNCHANGED <<pageVars, lastOp>>

\* the 'open' listener of upstream u: the session configuration is sent on
\* the socket the map holds for the listener's peer
UpstreamOpen(u) ==
  /\ upstreams[u].readyState = "CONNECTING"
  /\ upstreams' = [upstreams EXCEPT ![u].readyState = "OPEN"]
  /\ LET t == connections[upstreams[u].peer]
     IN  IF t = Null
         THEN /\ relayErrors' = relayErrors + 1
              /\ UNCHANGED toUpstream
         ELSE /\ relayErrors' = IF SendThrows(upstreams'[t].readyState)
                                THEN relayErrors + 1 ELSE relayErrors
              /\ toUpstream' = [toUpstream EXCEPT ![t] =
                                  UpstreamSend(@, upstreams'[t].readyState, SessionUpdate)]
  /\ UNCHANGED <<connections, peers, toClient, clientSent, upstreamSent>>
  /\ UNCHANGED <<pageVars, lastOp>>

\* the 'message' listener of upstream u: `peer.send(message.toString())`; a
\* frame sent to a peer whose connection has closed is discarded
UpstreamMessage(u) ==
  /\ upstreams[u].readyState \in {"OPEN", "CLOSING"}
  /\ Total(upstreamSent, UpstreamIds) < MaxUpstreamMsgs
  /\ upstreamSent' = [upstreamSent EXCEPT ![u] = @ + 1]
  /\ LET p == upstreams[u].peer
     IN  toClient' = IF peers[p].open /\ peers[p].epoch = upstreams[u].epoch
                     THEN [toClient EXCEPT ![p] =
                             Append(@, [from |-> u, seq |-> upstreamSent[u] + 1])]
                     ELSE toClient
  /\ UNCHANGED <<connections, peers, upstreams, toUpstream, clientSent, relayErrors>>
  /\ UNCHANGED <<pageVars, lastOp>>

\* upstream u is closed: by the far end, by a failed handshake, or at the end
\* of the closing handshake.  The relay has no listener for it.
UpstreamClose(u) ==
  /\ upstreams[u].readyState \in {"CONNECTING", "OPEN", "CLOSING"}
  /\ upstreams' = [upstreams EXCEPT ![u].readyState = "CLOSED"]
  /\ UNCHANGED <<connections, peers, toUpstream, toClient, clientSent, upstreamSent,
                 relayErrors>>
  /\ UNCHANGED <<pageVars, lastOp>>

\* message(peer, message): `connections[peer.id].send(message.text())`
RelayMessageCall(p) ==
  /\ Total(clientSent, PeerIds) < MaxClientMsgs
  /\ clientSent' = [clientSent EXCEPT ![p] = @ + 1]
  /\ LET u == connections[p]
     IN  IF u = Null
         THEN /\ relayErrors' = relayErrors + 1
              /\ UNCHANGED toUpstream
         ELSE /\ relayErrors' = IF SendThrows(upstreams[u].readyState)
                                THEN relayErrors + 1 ELSE relayErrors
              /\ toUpstream' = [toUpstream EXCEPT ![u] =
                                  UpstreamSend(@, upstreams[u].readyState,
                                               [from |-> p, seq |-> clientSent[p] + 1])]
  /\ UNCHANGED <<connections, peers, upstreams, toClient, upstreamSent>>
  /\ UNCHANGED <<pageVars, lastOp>>

RelayMessage(p) == peers[p].open /\ RelayMessageCall(p)

\* close(peer): `connections[peer.id].close(); delete connections[peer.id]`
RelayCloseCall(p) ==
  /\ peers' = [peers EXCEPT ![p].open = FALSE]
  /\ IF connections[p] = Null
     THEN /\ relayErrors' = relayErrors + 1
          /\ UNCHANGED <<upstreams, connections>>
     ELSE /\ upstreams' = [upstreams EXCEPT ![connections[p]].readyState = CloseSocket(@)]
          /\ connections' = DeleteEntry(connections, p)
          /\ UNCHANGED relayErrors
  /\ UNCHANGED <<toUpstream, toClient, clientSent, upstreamSent>>
  /\ UNCHANGED <<pageVars, lastOp>>

RelayClose(p) == peers[p].open /\ RelayCloseCall(p)

\* error(peer, error): logged to the console
RelayError(p) ==
  /\ peers[p].open
  /\ UNCHANGED relayVars
  /\ UNCHANGED <<pageVars, lastOp>>

RelayNext ==
  \/ \E p \in PeerIds : RelayOpen(p)
  \/ \E p \in PeerIds : RelayMessage(p)
  \/ \E p \in PeerIds : RelayClose(p)
  \/ \E p \in PeerIds : RelayError(p)
  \/ \E u \in UpstreamIds : UpstreamOpen(u)
  \/ \E u \in UpstreamIds : UpstreamMessage(u)
  \/ \E u \in UpstreamIds : UpstreamClose(u)

\* The same hooks called for a client whose close(peer) has already been
\* handled: the handlers do not look at the state of the peer, so a message,
\* a second close or an error delivered for it runs the same code.
Closed(p) == ~peers[p].open /\ peers[p].epoch > 0

LateMessage(p) == Closed(p) /\ RelayMessageCall(p)

LateClose(p) == Closed(p) /\ relayErrors < MaxErrors /\ RelayCloseCall(p)

LateError(p) ==
  /\ Closed(p)
  /\ UNCHANGED relayVars
  /\ UNCHANGED <<pageVars, lastOp>>

RelayLateNext ==
  \/ RelayNext
  \/ \E p \in PeerIds : LateMessage(p)
  \/ \E p \in PeerIds : LateClose(p)
  \/ \E p \in PeerIds : LateError(p)

\* ------------------------------------------- audioVisualizer.ts: renderer
\* the `running` test at the head of draw()
StoppedNever == FALSE

Stopped == ~running

\* draw(): return if stopped, else paint the waveform and request the next frame
Draw ==
  IF Stopped
  THEN /\ skipped' = skipped + 1
       /\ UNCHANGED <<animationFrameId, canvas, paints>>
  ELSE /\ paints < MaxFrames
       /\ paints' = paints + 1
       /\ canvas' = "wave"
       /\ animationFrameId' = paints + 1
       /\ UNCHANGED skipped

\* drawWaveform(): nothing without a canvas, else the first draw() runs at once
DrawWaveform ==
  /\ drawCalls < MaxDraws
  /\ drawCalls' = drawCalls + 1
  /\ IF canvasRef
     THEN /\ Draw
          /\ scheduled' = IF Stopped THEN scheduled ELSE scheduled \cup {paints + 1}
     ELSE UNCHANGED <<animationFrameId, canvas, paints, skipped, scheduled>>
  /\ UNCHANGED <<running, stopCalls, canvasRef>>
  /\ UNCHANGED <<audioVars, transportVars, logVars, messageLog, relayVars, lastOp>>

\* the browser runs the requested frame f: draw() is called again, with the
\* canvas its drawWaveform() call found
DrawFrame(f) ==
  /\ f \in scheduled
  /\ Draw
  /\ scheduled' = IF Stopped THEN scheduled \ {f} ELSE (scheduled \ {f}) \cup {paints + 1}
  /\ UNCHANGED <<running, drawCalls, stopCalls, canvasRef>>
  /\ UNCHANGED <<audioVars, transportVars, logVars, messageLog, relayVars, lastOp>>

\* stop(): clear the flag, cancel the frame whose id is held, clear the canvas
VizStop ==
  /\ stopCalls < MaxStops
  /\ stopCalls' = stopCalls + 1
  /\ running' = FALSE
  /\ scheduled' = scheduled \ {animationFrameId}
  /\ animationFrameId' = Null
  /\ canvas' = IF canvasRef THEN "blank" ELSE canvas
  /\ UNCHANGED <<paints, skipped, drawCalls, canvasRef>>
  /\ UNCHANGED <<audioVars, transportVars, logVars, messageLog, relayVars, lastOp>>

\* the page is left: the template ref of the canvas becomes null
Unmount ==
  /\ canvasRef
  /\ canvasRef' = FALSE
  /\ UNCHANGED <<running, animationFrameId, scheduled, canvas, paints, skipped,
                 drawCalls, stopCalls>>
  /\ UNCHANGED <<audioVars, transportVars, logVars, messageLog, relayVars, lastOp>>

VizNext ==
  \/ DrawWaveform
  \/ \E f \in scheduled : DrawFrame(f)
  \/ VizStop
  \/ Unmount

\* ------------------------------------------------------ specifications
Init ==
  /\ audioContext = Null
  /\ isRecording = FALSE
  /\ isPlaying = FALSE
  /\ audioBuffer = <<>>
  /\ currentBufferSize = 0
  /\ mediaStreamSource = Null
  /\ audioQueue = <<>>
  /\ flushBufferTimeoutId = Null
  /\ audioWaveform = Null
  /\ startPc = [i \in StartIds |-> "none"]
  /\ loaded = {}
  /\ timers = {}
  /\ connected = {}
  /\ drawing = {}
  /\ sources = {}
  /\ arrived = <<>>
  /\ flushed = <<>>
  /\ enqueued = 0
  /\ started = <<>>
  /\ ended = {}
  /\ ws = Null
  /\ isConnected = FALSE
  /\ sockets = [s \in SocketIds |-> [readyState |-> "none", opened |-> FALSE, errored |-> FALSE]]
  /\ wire = <<>>
  /\ thrown = 0
  /\ sendCalls = 0
  /\ disconnects = 0
  /\ peerConn = Null
  /\ channel = Null
  /\ rtcAudioContext = Null
  /\ analyser = Null
  /\ rtcAudioWaveform = Null
  /\ rtcIsConnected = FALSE
  /\ connecting = FALSE
  /\ attempts = [a \in AttemptIds |-> [pc |-> "none", target |-> Null]]
  /\ pcs = [p \in AttemptIds |-> [state |-> "none", remote |-> FALSE, handler |-> FALSE]]
  /\ openChannels = {}
  /\ openContexts = {}
  /\ liveAnalysers = {}
  /\ runningWaveforms = {}
  /\ connections = [p \in PeerIds |-> Null]
  /\ peers = [p \in PeerIds |-> [open |-> FALSE, epoch |-> 0]]
  /\ upstreams = [u \in UpstreamIds |-> [readyState |-> "none", peer |-> Null, epoch |-> 0]]
  /\ toUpstream = [u \in UpstreamIds |-> <<>>]
  /\ toClient = [p \in PeerIds |-> <<>>]
  /\ clientSent = [p \in PeerIds |-> 0]
  /\ upstreamSent = [u \in UpstreamIds |-> 0]
  /\ relayErrors = 0
  /\ messageLog = <<>>
  /\ eventLog = <<>>
  /\ pendingLogs = 0
  /\ lastOp = "init"
  /\ running = TRUE
  /\ animationFrameId = Null
  /\ scheduled = {}
  /\ canvas = "blank"
  /\ paints = 0
  /\ skipped = 0
  /\ drawCalls = 0
  /\ stopCalls = 0
  /\ canvasRef = TRUE

CaptureNext ==
  \/ RecordingNext
  \/ \E len \in ChunkLengths : ProcessAudioData(len)
  \/ \E t \in timers : TimerTick(t)

SpecCapture == Init /\ [][CaptureNext]_vars

PlaybackNext ==
  \/ RecordingNext
  \/ EnqueueAudio
  \/ \E s \in sources : SourceEnded(s)

SpecPlayback == Init /\ [][PlaybackNext]_vars

\* Playback under the scheduling the browser provides: a started buffer
\* source ends, a pending addModule or getUserMedia promise settles by
\* resolving, and the record button keeps being pressed while it can be.
SpecPlaybackLive ==
  /\ Init /\ [][PlaybackNext]_vars
  /\ WF_vars(\E s \in sources : SourceEnded(s))
  /\ WF_vars(\E i \in StartIds : AddModuleResolved(i))
  /\ WF_vars(\E i \in StartIds : GetUserMediaResolved(i))
  /\ WF_vars(ToggleRecording)

SpecWs == Init /\ [][WsNext]_vars

SpecRtc == Init /\ [][RtcNext]_vars

\* The peer-to-peer page under the scheduling the browser provides: every
\* pending await of connect() settles (it resolves or rejects), and a peer
\* connection that has its remote description and is new or connecting
\* reports its next state.
SpecRtcLive ==
  /\ Init /\ [][RtcNext]_vars
  /\ \A a \in AttemptIds :
       WF_vars(\/ TokenResolved(a) \/ MediaResolved(a) \/ OfferResolved(a)
               \/ LocalResolved(a) \/ SdpResolved(a) \/ RemoteResolved(a)
               \/ RtcAwaitRejected(a))
  /\ \A p \in AttemptIds :
       WF_vars(/\ pcs[p].state \in {"new", "connecting"}
               /\ \E to \in {"connecting", "connected", "failed"} : PcStateChange(p, to))

\* A page instance runs one of the two page scripts: the duplex page until a
\* peer-to-peer connect() has been called, the peer-to-peer page until a socket
\* or a recording has been created.
DuplexPage == NextAttempt = 1

P2pPage == NextSocket = 1 /\ NextStart = 1

\* The record button is rendered only while isConnected (`v-if="isConnected"`).
RecordButton == isConnected /\ ToggleRecording

DispatchNext ==
  \/ /\ DuplexPage
     /\ \/ Connect
        \/ \E s \in SocketIds : SocketOpen(s)
        \/ \E s \in SocketIds : SocketClose(s)
        \/ RecordButton
        \/ \E i \in StartIds : AddModuleResolved(i)
        \/ \E i \in StartIds : GetUserMediaResolved(i)
        \/ \E s \in SocketIds, ev \in Events : HandleWebSocketMessage(s, ev)
  \/ /\ P2pPage
     /\ \/ RtcConnect
        \/ \E a \in AttemptIds : TokenResolved(a)
        \/ \E a \in AttemptIds : MediaResolved(a)
        \/ \E a \in AttemptIds : OfferResolved(a)
        \/ \E a \in AttemptIds : LocalResolved(a)
        \/ \E a \in AttemptIds : SdpResolved(a)
        \/ \E a \in AttemptIds : RemoteResolved(a)
        \/ \E a \in AttemptIds, to \in {"connecting", "connected"} : PcStateChange(a, to)
        \/ \E c \in AttemptIds, ev \in Events : ChannelMessage(c, ev)
        \/ TranscriptTimeout

SpecDispatch == Init /\ [][DispatchNext]_vars

SpecRelay == Init /\ [][RelayNext]_vars

SpecRelayLate == Init /\ [][RelayLateNext]_vars

SpecViz == Init /\ [][VizNext]_vars

\* --------------------------------------------------------------- claims
\* The last element of a non-empty sequence.
Last(seq) == seq[Len(seq)]

\* C1: whenever processAudioData appends a chunk that brings the pending bytes to
\* BUFFER_SIZE or more, that same handler call hands onFlushCallback exactly one
\* buffer, the concatenation of all pending chunks in arrival order, and leaves
\* the pending list empty and the byte counter zero.
C1_SizeTriggeredFlush ==
  [][(lastOp' = "processAudioData" /\ Len(arrived') = Len(arrived) + 1
        /\ 2 * SumLengths(Append(audioBuffer, Last(arrived'))) >= BUFFER_SIZE)
     => /\ Len(flushed') = Len(flushed) + 1
        /\ SubSeq(flushed', 1, Len(flushed)) = flushed
        /\ ReadChunks(Last(flushed'), 0) = Append(audioBuffer, Last(arrived'))
        /\ Last(flushed').length = SumLengths(Append(audioBuffer, Last(arrived')))
        /\ audioBuffer' = <<>>
        /\ currentBufferSize' = 0]_vars

\* A size-triggered flush of several chunks has just happened.
C1_Witness ==
  /\ lastOp = "processAudioData"
  /\ flushed # <<>>
  /\ audioBuffer = <<>>
  /\ Len(ReadChunks(Last(flushed), 0)) >= 2
  /\ Last(ReadChunks(Last(flushed), 0)) = Last(arrived)

\* C2: the buffers handed to onFlushCallback so far, read in order, followed by
\* the pending chunks are exactly the chunks that arrived, in arrival order.
C2_NoLossNoDuplication ==
  ReadAll(flushed) \o audioBuffer = arrived

\* A timer flush (below the threshold) and a size flush have both happened and a
\* chunk is pending again.
C2_Witness ==
  /\ audioBuffer # <<>>
  /\ \E i \in 1..Len(flushed) : 2 * flushed[i].length < BUFFER_SIZE
  /\ \E i \in 1..Len(flushed) : 2 * flushed[i].length >= BUFFER_SIZE

\* C3: a tick of the periodic timer with no chunk pending invokes no callback and
\* leaves the capture buffer and the counter as they were.
C3_IdleTimerNoFlush ==
  [][(lastOp' = "timer" /\ Len(audioBuffer) = 0)
     => UNCHANGED <<flushed, audioBuffer, currentBufferSize>>]_vars

\* The timer has fired although no chunk ever arrived.
C3_Witness ==
  /\ lastOp = "timer"
  /\ arrived = <<>>
  /\ flushed = <<>>

\* C4: at most one buffer source is started and not yet ended, and isPlaying is
\* true exactly while there is one.
C4_OnePlayback ==
  /\ Cardinality(sources) <= 1
  /\ isPlaying <=> sources # {}

\* A chunk plays on a context that startRecording has since replaced, while an
\* earlier chunk has ended and a later one waits.
C4_Witness ==
  /\ isPlaying
  /\ \E s \in sources : s.ctx # audioContext
  /\ ended # {}
  /\ audioQueue # <<>>

\* C5: playback starts in enqueue order, and every chunk started before another
\* has ended by the time the other starts.
C5_FifoNoOverlap ==
  /\ \A i \in 1..Len(started) : started[i] = i
  /\ \A i \in 1..(Len(started) - 1) : started[i] \in ended

\* Three chunks have started; the second was enqueued while the first played.
C5_Witness ==
  /\ Len(started) = 3
  /\ ended = {1, 2}

\* C6: a sendMessage call made while the current socket is not open (none yet,
\* connecting, closing or closed) transmits nothing on any socket and raises
\* nothing.
C6_SendWhileNotOpen ==
  [][(lastOp' = "sendMessage" /\ sendCalls' = sendCalls + 1
        /\ ~(ws # Null /\ sockets[ws].readyState = "OPEN"))
     => (wire' = wire /\ thrown' = thrown)]_vars

\* C9: isConnected is true exactly when the socket the transport currently holds
\* has reported open and has not yet reported close.
C9_StatusTracksCurrentSocket ==
  isConnected <=> (ws # Null /\ sockets[ws].opened /\ sockets[ws].readyState # "CLOSED")

\* A connect() call that has neither failed nor seen its peer connection report
\* 'connected', fail or close.
Negotiating(a) ==
  \/ attempts[a].pc \in Awaiting
  \/ attempts[a].pc = "done" /\ pcs[a].state \in {"new", "connecting"}

\* C10: isConnected turns true only in a step in which a peer connection reports
\* the state 'connected' (never on completion of signaling), and from the call of
\* connect() until that report connecting is true and isConnected is false.
C10_ConnectedOnlyOnReport ==
  /\ [][(~rtcIsConnected /\ rtcIsConnected')
        => \E p \in AttemptIds : pcs[p].state # "connected" /\ pcs'[p].state = "connected"]_vars
  /\ [](\A a \in AttemptIds : Negotiating(a) => (connecting /\ ~rtcIsConnected))

\* disconnect() has been called twice in succession, or at least once on a
\* transport whose connect() was never called.
DisconnectedTwiceWs == disconnects >= 2 \/ (disconnects >= 1 /\ NextSocket = 1)

DisconnectedTwiceRtc == disconnects >= 2 \/ (disconnects >= 1 /\ NextAttempt = 1)

\* C7: after disconnect() was called twice in succession, or on a session that
\* never connected, the status is disconnected: isConnected is false, in the
\* duplex variant once no close event is pending any more.
C7_DisconnectIdempotent ==
  /\ (DisconnectedTwiceWs /\ \A s \in SocketIds : sockets[s].readyState # "CLOSING")
       => ~isConnected
  /\ DisconnectedTwiceRtc => ~rtcIsConnected

\* C8: at most one socket (duplex variant) and at most one peer connection
\* (peer-to-peer variant) created by the client is not closed.
C8_OneConnection ==
  /\ Cardinality(LiveSockets) <= 1
  /\ Cardinality(OpenPcs) <= 1


\* C11: once disconnect() of the peer-to-peer page has returned, whatever the
\* prior state, the five references (data channel, peer connection,
\* analyser, audio context, waveform renderer) are cleared, isConnected is
\* false, and no data channel, peer connection, analyser, audio context or
\* waveform renderer that the page created is still live.
C11_DisconnectReleasesAll ==
  [][RtcDisconnectCall =>
       /\ channel' = Null /\ peerConn' = Null /\ analyser' = Null
       /\ rtcAudioContext' = Null /\ rtcAudioWaveform' = Null
       /\ ~rtcIsConnected'
       /\ OpenPcs' = {} /\ openChannels' = {} /\ liveAnalysers' = {}
       /\ openContexts' = {} /\ runningWaveforms' = {}]_vars


\* C19: when the microphone request of a startRecording call fails, the call
\* ends with the recording flag reset to false and no flush timer scheduled
\* (so that the next press of the record button starts a recording again).
C19_MicFailureResetsFlag ==
  [][\A i \in StartIds :
       (startPc[i] = "getUserMedia" /\ AwaitRejected(i))
         => (~isRecording' /\ flushBufferTimeoutId' = Null)]_vars

\* The audio contexts startRecording has created and nothing has closed:
\* useAudio never calls close() on a context.
OpenAudioContexts == {i \in StartIds : startPc[i] # "none"}

\* C20: a stopRecording call that finds the flag true leaves the flag false,
\* the flush timer cancelled, the microphone source disconnected, the audio
\* context released and the waveform renderer stopped.
C20_StopRecordingReleases ==
  [][(isRecording /\ ~isRecording') =>
       /\ flushBufferTimeoutId' = Null
       /\ flushBufferTimeoutId \notin timers'
       /\ mediaStreamSource \notin connected'
       /\ audioContext \notin OpenAudioContexts'
       /\ audioWaveform \notin drawing']_vars

\* C12: when a page's dispatcher receives an event whose tag it has no case
\* for, the tag is appended to the diagnostic event log and nothing else
\* changes: not the message log, the playback queue, the recording state or
\* the connection state.
C12_UnknownTagOnlyLogged ==
  [][/\ \A s \in SocketIds, ev \in Events :
          (ev.type \notin DuplexCases /\ HandleWebSocketMessage(s, ev))
            => /\ eventLog' = Append(eventLog, ev.type)
               /\ UNCHANGED <<messageLog, pendingLogs, audioVars, transportVars>>
     /\ \A c \in AttemptIds, ev \in Events :
          (ev.type \notin P2pCases /\ ChannelMessage(c, ev))
            => /\ eventLog' = Append(eventLog, ev.type)
               /\ UNCHANGED <<messageLog, pendingLogs, audioVars, transportVars>>]_vars

\* An unknown tag was dispatched while recording, playing and connected.
C12_Witness ==
  /\ lastOp = "handleWebSocketMessage"
  /\ Len(eventLog) = 2 /\ Last(eventLog) = "session.created"
  /\ isRecording /\ isPlaying /\ isConnected

\* C13: when a dispatcher handles an 'error' event, recording is stopped if it
\* was active; if the event carries the session-expired code, the connection
\* that delivered it is torn down (and the peer-to-peer status is
\* disconnected at once); otherwise the connection is left as it is.
C13_ErrorEvent ==
  [][/\ \A s \in SocketIds, ev \in Events :
          (ev.type = "error" /\ HandleWebSocketMessage(s, ev))
            => /\ ~isRecording'
               /\ IF ev.code = "session_expired"
                  THEN sockets'[s].readyState \in {"CLOSING", "CLOSED"}
                  ELSE UNCHANGED wsVars
     /\ \A c \in AttemptIds, ev \in Events :
          (ev.type = "error" /\ ChannelMessage(c, ev))
            => IF ev.code = "session_expired"
               THEN ~rtcIsConnected' /\ c \notin openChannels' /\ c \notin OpenPcs'
               ELSE UNCHANGED rtcVars]_vars

\* C14: every key of the relay's session map maps to one live upstream
\* connection (connecting or open, not closing or closed), no two keys share
\* an upstream, and a key whose upstream is no longer live is absent.
C14_LiveUpstreamPerKey ==
  /\ \A p \in PeerIds :
       connections[p] # Null
         => upstreams[connections[p]].readyState \in {"CONNECTING", "OPEN"}
  /\ \A p, q \in PeerIds :
       (p # q /\ connections[p] # Null) => connections[p] # connections[q]

\* C15: when a client connection closes, the relay closes that client's
\* upstream and removes its entry; an open with the same identifier afterwards
\* creates a new upstream connection.
C15_CloseThenFreshUpstream ==
  [][\A p \in PeerIds :
       /\ RelayClose(p)
            => /\ connections'[p] = Null
               /\ connections[p] # Null
               /\ upstreams'[connections[p]].readyState \in {"CLOSING", "CLOSED"}
       /\ RelayOpen(p)
            => /\ connections'[p] # Null
               /\ upstreams[connections'[p]].readyState = "none"
               /\ upstreams'[connections'[p]].readyState = "CONNECTING"]_vars

\* A client identifier was closed and opened again: it has a second upstream.
C15_Witness ==
  \E p \in PeerIds :
    /\ peers[p].epoch = 2 /\ peers[p].open
    /\ connections[p] = 2
    /\ upstreams[1].peer = p /\ upstreams[1].readyState \in {"CLOSING", "CLOSED"}

\* The client frames among the frames sent on an upstream, and their numbers.
ClientFrames(frames) == SelectSeq(frames, LAMBDA f : f # SessionUpdate)

\* The frames are numbered first .. first + n - 1 in this order.
Consecutive(frames) ==
  \A i \in 1..Len(frames) : frames[i].seq = frames[1].seq + i - 1

\* C16: while a client and its upstream are both open, every message of the
\* upstream is sent to that client and every message of the client is sent on
\* that upstream, unmodified, once, and in the order of arrival.
C16_ForwardedOnceInOrder ==
  /\ [][/\ \A p \in PeerIds :
             ( /\ RelayMessage(p)
               /\ connections[p] # Null
               /\ upstreams[connections[p]].readyState = "OPEN" )
               => toUpstream' = [toUpstream EXCEPT ![connections[p]] =
                                   Append(@, [from |-> p, seq |-> clientSent[p] + 1])]
        /\ \A u \in UpstreamIds :
             ( /\ UpstreamMessage(u)
               /\ upstreams[u].readyState = "OPEN"
               /\ peers[upstreams[u].peer].open
               /\ connections[upstreams[u].peer] = u )
               => toClient' = [toClient EXCEPT ![upstreams[u].peer] =
                                 Append(@, [from |-> u, seq |-> upstreamSent[u] + 1])]]_vars
  /\ [](\A u \in UpstreamIds : upstreams[u].peer # Null =>
          /\ Consecutive(ClientFrames(toUpstream[u]))
          /\ \A i \in 1..Len(ClientFrames(toUpstream[u])) :
               ClientFrames(toUpstream[u])[i].from = upstreams[u].peer
          /\ Consecutive(SelectSeq(toClient[upstreams[u].peer], LAMBDA f : f.from = u)))

\* Two messages went each way between one client and its open upstream.
C16_Witness ==
  \E p \in PeerIds :
    /\ connections[p] # Null
    /\ upstreams[connections[p]].readyState = "OPEN"
    /\ Len(ClientFrames(toUpstream[connections[p]])) = 2
    /\ Len(toClient[p]) = 2

C18_EarlyMessageNoError ==
  [][\A p \in PeerIds :
       ( /\ RelayMessage(p)
         /\ connections[p] # Null
         /\ upstreams[connections[p]].readyState # "OPEN" )
         => /\ relayErrors' = relayErrors
            /\ connections' = connections]_vars

\* C26: after every handler of the capture pipeline has returned, the byte
\* counter equals the total byte size of the pending chunks (two bytes per
\* sample) and is strictly less than 8192.
C26_CounterMatchesPending ==
  /\ currentBufferSize = 2 * SumLengths(audioBuffer)
  /\ currentBufferSize < BUFFER_SIZE

\* Two chunks are pending after a flush has happened: the counter was reset
\* and has grown again.
C26_Witness ==
  /\ Len(audioBuffer) = 2
  /\ flushed # <<>>
  /\ currentBufferSize = 6144

\* C24: whenever the recording flag is false, no flush timer is active and no
\* microphone source is connected to the worklet node; and at most one flush
\* timer is active at any time.
C24_NotRecordingMeansIdle ==
  /\ ~isRecording => (timers = {} /\ connected = {})
  /\ Cardinality(timers) <= 1

\* The chunks whose playback has started.
Played == {started[i] : i \in 1..Len(started)}

\* C23: every chunk passed to enqueueAudio is eventually played, given that
\* every started playback ends; chunks enqueued before the first
\* startRecording has created the audio context included.
C23_EnqueuedEventuallyPlayed ==
  \A k \in 1..MaxEnqueue : (enqueued >= k) ~> (k \in Played)

\* connect() call a has finished: it returned or its catch block has run.
Finished(a) == attempts[a].pc \in {"done", "failed"}

\* disconnect() has just run while connect() call a was suspended at an await.
CutShort(a) == lastOp = "rtcDisconnect" /\ attempts[a].pc \in Awaiting

\* C25: when disconnect() is called while a connect() call is negotiating,
\* then from the time that call has finished (and as long as connect() is not
\* called again) isConnected is false and no peer connection, data channel,
\* audio context or renderer which that call created is live.
C25_DisconnectWhileNegotiating ==
  \A a \in AttemptIds :
    [](CutShort(a) =>
         []((Finished(a) /\ NextAttempt = a + 1)
              => /\ ~rtcIsConnected
                 /\ a \notin OpenPcs /\ a \notin openChannels
                 /\ a \notin openContexts /\ a \notin runningWaveforms))

\* C27: every connect() attempt eventually leaves the transitional state: once
\* the connecting flag is true it eventually becomes false.
C27_ConnectingEventuallyFalse == connecting ~> ~connecting

\* ---------------------------------------------------------------- C22
Updates(u) == Len(SelectSeq(toUpstream[u], LAMBDA f : f = SessionUpdate))

\* C22: every upstream the relay creates receives exactly one session.update,
\* sent in the step in which it opens: an upstream that has not opened
\* (not created, connecting, or closed before opening) has received none, an
\* open one has received one, and the number of session.update frames an
\* upstream has received grows, by one, only in the step that takes it from
\* CONNECTING to OPEN.
C22_OneSessionUpdatePerUpstream ==
  /\ [](\A u \in UpstreamIds :
          /\ upstreams[u].readyState \in {"none", "CONNECTING"} => Updates(u) = 0
          /\ upstreams[u].readyState = "OPEN" => Updates(u) = 1
          /\ Updates(u) <= 1)
  /\ [][\A u \in UpstreamIds :
          Updates(u)' = Updates(u) + (IF /\ upstreams[u].readyState = "CONNECTING"
                                         /\ upstreams'[u].readyState = "OPEN"
                                      THEN 1 ELSE 0)]_vars

\* one upstream has opened and holds its session.update, another one was
\* closed before it opened and holds none
C22_Witness ==
  \E u, v \in UpstreamIds :
    /\ upstreams[u].readyState = "OPEN" /\ Updates(u) = 1
    /\ upstreams[v].readyState = "CLOSED" /\ toUpstream[v] = <<>> /\ Updates(v) = 0

\* ---------------------------------------------------------------- C28
\* a handler of the relay runs on behalf of client p
HandlerFor(p) ==
  \/ LateMessage(p) \/ LateClose(p) \/ LateError(p)
  \/ \E u \in UpstreamIds : upstreams[u].peer = p /\ (UpstreamOpen(u) \/ UpstreamMessage(u))

\* C28: once close(peer) has been handled for a client (and the client has
\* not connected again), a handler that still runs for it -- an upstream
\* message or open, or a message, close or error of the client delivered
\* late -- forwards nothing to the client and does not fail on the removed
\* map entry.
C28_NothingAfterClose ==
  [][\A p \in PeerIds :
       (Closed(p) /\ HandlerFor(p))
         => (toClient'[p] = toClient[p] /\ relayErrors' = relayErrors)]_vars

\* ---------------------------------------------------------------- C21
\* C21: once stop() has been called, a draw frame that runs (one requested
\* before stop() included) and a later drawWaveform() call paint nothing and
\* request no frame, and a further stop() changes nothing of the renderer or
\* the canvas.
C21_NoWorkAfterStop ==
  [][stopCalls > 0 =>
       /\ paints' = paints
       /\ canvas' = canvas
       /\ scheduled' \subseteq scheduled
       /\ animationFrameId' = animationFrameId
       /\ running' = running
       /\ (stopCalls' # stopCalls => scheduled' = scheduled)]_vars

\* after two stop() calls, a frame requested before the first one has run and
\* a drawWaveform() call has come after it, and the canvas is blank
C21_Witness ==
  /\ stopCalls = 2
  /\ skipped >= 2
  /\ paints >= 2
  /\ scheduled = {}
  /\ canvas = "blank"

====
